---- MODULE Spec2Model ----
(***************************************************************************)
(* Model of the audio enhancement pipeline of src/audio_enhancer.py:       *)
(* AudioEnhancer.enhance_audio, its three preset chains, the voice         *)
(* activity gate, the spectral stages' length behaviour, and the entry     *)
(* point enhance_audio_for_transcription.                                  *)
(*                                                                         *)
(* A buffer is a record [segs, hist]:                                      *)
(*   segs  the samples it holds, as a canonical sequence of half-open      *)
(*         index ranges <<lo, hi>> of the decoded input (which sample of   *)
(*         the input stands at which position);                            *)
(*   hist  the value transformations applied to those samples, in order.   *)
(* Numeric parameters that are fractions in the source are scaled to       *)
(* integers: prop_decrease in percent (0.8 -> 80), compression ratio as    *)
(* the integer ratio (3.0 -> 3).                                           *)
(***************************************************************************)
EXTENDS Integers, Sequences, FiniteSets, TLC

\* ---------------------------------------------------------------- bounds
MaxFrames == 3

\* ------------------------------------------------------ program constants
SampleRate == 16000
FrameDuration == 30
Hop == 512
NFft == 2048

FrameLength == (SampleRate * FrameDuration) \div 1000

\* --------------------------------------------------------------- buffers
Min(a, b) == IF a < b THEN a ELSE b
Max(a, b) == IF a > b THEN a ELSE b

RECURSIVE SegsLen(_)
SegsLen(segs) ==
    IF segs = <<>> THEN 0
    ELSE (Head(segs)[2] - Head(segs)[1]) + SegsLen(Tail(segs))

BufLen(b) == SegsLen(b.segs)

\* concatenation of two sample runs; adjacent ranges are one run of samples
Cat(s, t) ==
    IF s = <<>> THEN t
    ELSE IF t = <<>> THEN s
    ELSE IF s[Len(s)][2] = t[1][1]
         THEN SubSeq(s, 1, Len(s) - 1) \o <<<<s[Len(s)][1], t[1][2]>>>> \o Tail(t)
         ELSE s \o t

\* the samples at positions a .. b-1 (python slice [a:b], 0 <= a <= b)
RECURSIVE Slice(_, _, _)
Slice(segs, a, b) ==
    IF segs = <<>> \/ b <= 0 \/ a >= b THEN <<>>
    ELSE LET h == Head(segs)
             n == h[2] - h[1]
         IN IF a >= n THEN Slice(Tail(segs), a - n, b - n)
            ELSE Cat(<<<<h[1] + Max(a, 0), h[1] + Min(b, n)>>>>,
                     Slice(Tail(segs), a - n, b - n))

RawBuffer(n) == [segs |-> IF n = 0 THEN <<>> ELSE <<<<0, n>>>>, hist |-> <<>>]

\* a stage that rewrites sample values and keeps every position
Apply(b, st) == [segs |-> b.segs, hist |-> Append(b.hist, st)]

\* --------------------------------------------------------------- presets
St(op, aggressive, args) == [op |-> op, aggressive |-> aggressive, args |-> args]

LightSteps ==
    << St("normalize", FALSE, <<>>),
       St("reduce_noise", FALSE, <<80>>),
       St("high_pass", FALSE, <<80>>) >>

MediumStepsNoGate ==
    << St("normalize", FALSE, <<>>),
       St("reduce_noise", FALSE, <<90>>),
       St("band_pass", FALSE, <<80, 7000>>),
       St("compress", FALSE, <<3>>),
       St("normalize", FALSE, <<>>) >>

MediumSteps ==
    << St("normalize", FALSE, <<>>),
       St("remove_silence", FALSE, <<>>),
       St("reduce_noise", FALSE, <<90>>),
       St("band_pass", FALSE, <<80, 7000>>),
       St("compress", FALSE, <<3>>),
       St("normalize", FALSE, <<>>) >>

AggressiveStepsTableOrder ==
    << St("normalize", FALSE, <<>>),
       St("remove_silence", TRUE, <<>>),
       St("reduce_noise", FALSE, <<95>>),
       St("band_pass", FALSE, <<100, 6000>>),
       St("spectral_subtraction", FALSE, <<>>),
       St("enhance_voice", FALSE, <<>>),
       St("compress", FALSE, <<4>>),
       St("normalize", FALSE, <<>>) >>

AggressiveSteps ==
    << St("normalize", FALSE, <<>>),
       St("remove_silence", TRUE, <<>>),
       St("reduce_noise", FALSE, <<95>>),
       St("spectral_subtraction", FALSE, <<>>),
       St("band_pass", FALSE, <<100, 6000>>),
       St("enhance_voice", FALSE, <<>>),
       St("compress", FALSE, <<4>>),
       St("normalize", FALSE, <<>>) >>

StepsDefaultLight(lvl) ==
    IF lvl = "light" THEN LightSteps
    ELSE IF lvl = "medium" THEN MediumSteps
    ELSE IF lvl = "aggressive" THEN AggressiveSteps
    ELSE LightSteps

\* the if/elif/else of enhance_audio: any other level runs the medium chain
Steps(lvl) ==
    IF lvl = "light" THEN LightSteps
    ELSE IF lvl = "medium" THEN MediumSteps
    ELSE IF lvl = "aggressive" THEN AggressiveSteps
    ELSE MediumSteps

\* ------------------------------------------------------ voice activity gate
Verdicts == {"speech", "nonspeech", "raise"}

\* number of i in range(0, n - frame_length + 1, frame_length)
NumFrames(n) ==
    IF n - FrameLength + 1 <= 0 THEN 0
    ELSE (n - FrameLength) \div FrameLength + 1

FrameAtInclusive(b, k) ==
    Slice(b.segs, (k - 1) * FrameLength, k * FrameLength + 1)

\* audio[i:i + frame_length] for the k-th loop iteration, i = (k-1)*frame_length
FrameAt(b, k) == Slice(b.segs, (k - 1) * FrameLength, k * FrameLength)

KeepAlways(v, aggressive) == TRUE

KeepDropOnRaise(v, aggressive) ==
    IF v = "raise" THEN FALSE
    ELSE (v = "speech") \/ ~aggressive

KeepIgnoringFlag(v, aggressive) == v \in {"raise", "speech"}

\* the frame is appended when is_speech or not aggressive, or when the
\* detector raised
Keep(v, aggressive) ==
    IF v = "raise" THEN TRUE
    ELSE (v = "speech") \/ ~aggressive

\* the loop: indices of the frames appended to voiced_frames, in loop order
VoicedFrames(n, verdicts, aggressive) ==
    SelectSeq([k \in 1 .. NumFrames(n) |-> k],
              LAMBDA k : Keep(verdicts[k], aggressive))

RECURSIVE Concatenate(_, _)
Concatenate(b, ks) ==
    IF ks = <<>> THEN <<>>
    ELSE Cat(FrameAt(b, Head(ks)), Concatenate(b, Tail(ks)))

RemoveSilenceNoFallback(b, verdicts, aggressive) ==
    [segs |-> Concatenate(b, VoicedFrames(BufLen(b), verdicts, aggressive)),
     hist |-> b.hist]

\* the detector's exceptions are absorbed per frame by the inner except; the
\* other statements under the outer try (scaling to int16, slicing,
\* np.concatenate of a non-empty list) do not raise on an array
RemoveSilence(b, verdicts, aggressive) ==
    LET voiced == VoicedFrames(BufLen(b), verdicts, aggressive)
    IN IF voiced # <<>>
       THEN [segs |-> Concatenate(b, voiced), hist |-> b.hist]
       ELSE b

\* ---------------------------------------------------------- spectral stages
StftFramesNoPad(n) == n \div Hop

\* librosa.stft(n_fft=2048, hop_length=512), centred: one frame per hop
StftFrames(n) == 1 + n \div Hop

IstftLenUncentred(frames) == NFft + Hop * (frames - 1)

\* librosa.istft(hop_length=512), centred: n_fft/2 trimmed at both ends
IstftLen(frames) == NFft + Hop * (frames - 1) - 2 * (NFft \div 2)

\* an array of m samples rebuilt from b: positions past the end of b hold
\* samples that come from no input position (ranges below 0)
Resize(segs, m) ==
    IF m <= SegsLen(segs) THEN Slice(segs, 0, m)
    ELSE <<<<SegsLen(segs) - m, 0>>>> \o segs

Spectral(b, st) ==
    [segs |-> Resize(b.segs, IstftLen(StftFrames(BufLen(b)))),
     hist |-> Append(b.hist, st)]

\* ------------------------------------------------------------------ state
VARIABLES
    pc,              \* position of the invocation
    level,           \* enhancement_level
    file,            \* decoded content of file_path
    loaded,          \* librosa.load of file_path succeeded
    audio,           \* the local `audio` of the running preset chain
    step,            \* index of the next statement of the preset chain
    trace,           \* the stage calls made so far, in order
    verdicts,        \* detector outcome per frame in the last gate call
    voiced_frames,   \* voiced_frames at the end of the last gate call
    failed,          \* where the exception caught by enhance_audio was raised
    enhFile,         \* content written to output_path
    enhanced_path,   \* value returned by enhance_audio
    metrics,         \* second component of the entry point's result
    outcome,         \* how the entry point ended
    compared,        \* the paths handed to get_audio_quality_metrics
    dop,             \* the stage function called on its own, "none" before
    din,             \* the arguments of that call
    dout             \* what that call returned

\* two invocations of the enhancer on the global AudioEnhancer instance,
\* each followed by its caller's conversion and clean-up
VARIABLES
    ipc,             \* position of each invocation
    inputs,          \* file_path, frames and preset of each invocation
    frame_i,         \* index of the next frame of the gate loop
    voiced,          \* frames appended to voiced_frames so far
    vad,             \* state of self.vad, the one detector of the instance
    disk,            \* content of the files under transcribe_temp
    converted,       \* what the caller read from the enhanced path
    touched          \* writes and removals of enhanced files, by invocation

\* one call of transcribe_audio, directly or from the /transcribe handler
VARIABLES
    tpc,             \* position in transcribe_audio / the handler
    via,             \* who called transcribe_audio
    enhance_audio,   \* the parameter enhance_audio
    available,       \* AUDIO_ENHANCEMENT_AVAILABLE
    files,           \* the files that exist
    enhanced_file_path,
    wav_path,
    audio_metrics,
    model,           \* the global Whisper model
    result,          \* what transcribe_audio returned, or that it raised
    raised_at,       \* the calls that raised, in order
    removals,        \* the os.remove calls that removed a file, in order
    response         \* how the handler ended

vars == <<pc, level, file, loaded, audio, step, trace, verdicts, voiced_frames,
          failed, enhFile, enhanced_path, metrics, outcome, compared,
          dop, din, dout,
          ipc, inputs, frame_i, voiced, vad, disk, converted, touched,
          tpc, via, enhance_audio, available, files, enhanced_file_path,
          wav_path, audio_metrics, model, result, raised_at, removals,
          response>>

\* the state of one invocation of the entry point
pvars == <<pc, level, file, loaded, audio, step, trace, verdicts, voiced_frames,
           failed, enhFile, enhanced_path, metrics, outcome, compared>>

\* the state of one call of a stage function on a numeric buffer
dvars == <<dop, din, dout>>

\* the state of two invocations sharing the global instance
svars == <<ipc, inputs, frame_i, voiced, vad, disk, converted, touched>>

\* the state of one call of transcribe_audio
tvars == <<tpc, via, enhance_audio, available, files, enhanced_file_path,
           wav_path, audio_metrics, model, result, raised_at, removals,
           response>>

\* the state the enhancer's own actions never touch
xvars == <<svars, tvars>>

\* the two invocations
Inv == {1, 2}

\* a file path as directory and base name
NoPath == [dir |-> "none", name |-> "none"]

NoInput == [path |-> NoPath, frames |-> <<>>, aggressive |-> FALSE]

\* no file at a path of transcribe_temp
NoFile == [owner |-> 0, audio |-> <<>>]

\* input files of the two invocations: two directories, two base names
InputPaths ==
    {[dir |-> "a", name |-> "x.wav"], [dir |-> "b", name |-> "x.wav"],
     [dir |-> "a", name |-> "y.wav"]}

\* os.path.join(temp_dir, f"enhanced_{os.path.basename(file_path)}.wav")
OutputPath(path) ==
    [dir |-> "transcribe_temp", name |-> <<"enhanced_", path.name, ".wav">>]

OutputPaths == {OutputPath(p) : p \in InputPaths}

\* the metrics of transcribe_audio: the enhancer's dict or one of its own
Metrics(kind, error) == [kind |-> kind, error |-> error]

NoResult == [kind |-> "none", success |-> TRUE, error |-> "none"]

\* no array / no file content
NoBuffer == [segs |-> <<<<-1, -1>>>>, hist |-> <<>>]

LevelInputs == {"light", "medium", "aggressive", "extreme"}

TailLens == {0, 1, Hop - FrameLength, FrameLength - 1}

InputLens == {f * FrameLength + t : f \in 0 .. MaxFrames, t \in TailLens}

Init ==
    /\ pc = "idle"
    /\ level = "medium"
    /\ file = NoBuffer
    /\ loaded = FALSE
    /\ audio = NoBuffer
    /\ step = 0
    /\ trace = <<>>
    /\ verdicts = <<>>
    /\ voiced_frames = <<>>
    /\ failed = "none"
    /\ enhFile = NoBuffer
    /\ enhanced_path = "none"
    /\ metrics = "none"
    /\ outcome = "running"
    /\ compared = <<>>
    /\ dop = "none"
    /\ din = <<>>
    /\ dout = <<>>
    /\ ipc = [i \in Inv |-> "idle"]
    /\ inputs = [i \in Inv |-> NoInput]
    /\ frame_i = [i \in Inv |-> 0]
    /\ voiced = [i \in Inv |-> <<>>]
    /\ vad = 0
    /\ disk = [o \in OutputPaths |-> NoFile]
    /\ converted = [i \in Inv |-> NoFile]
    /\ touched = {}
    /\ tpc = "idle"
    /\ via = "none"
    /\ enhance_audio = FALSE
    /\ available = FALSE
    /\ files = {}
    /\ enhanced_file_path = "undefined"
    /\ wav_path = "undefined"
    /\ audio_metrics = Metrics("undefined", "none")
    /\ model = "none"
    /\ result = NoResult
    /\ raised_at = <<>>
    /\ removals = <<>>
    /\ response = "none"

\* enhance_audio_for_transcription(file_path, enhancement_level) is called
Call ==
    /\ pc = "idle"
    /\ \E lvl \in LevelInputs, n \in InputLens :
          /\ level' = lvl
          /\ file' = RawBuffer(n)
    /\ pc' = "load"
    /\ UNCHANGED <<loaded, audio, step, trace, verdicts, voiced_frames, failed,
                   enhFile, enhanced_path, metrics, outcome>>
    /\ UNCHANGED <<compared, dvars, xvars>>

\* the statements inside the try block of enhance_audio
EnhanceTryWithoutLoad == {"stage", "save"}

EnhanceTry == {"load", "stage", "save"}

\* an exception raised at `site` inside enhance_audio
Raise(site) ==
    IF site \in EnhanceTry
    THEN /\ pc' = "except"
         /\ failed' = site
         /\ outcome' = outcome
    ELSE /\ pc' = "done"
         /\ failed' = site
         /\ outcome' = "raised"

\* audio_data, sr = librosa.load(file_path, sr=self.sample_rate)
Load ==
    /\ pc = "load"
    /\ \E ok \in BOOLEAN :
          IF ok
          THEN /\ loaded' = TRUE
               /\ audio' = file
               /\ step' = 1
               /\ pc' = "stage"
               /\ UNCHANGED <<failed, outcome>>
          ELSE /\ Raise("load")
               /\ UNCHANGED <<loaded, audio, step>>
    /\ UNCHANGED <<level, file, trace, verdicts, voiced_frames, enhFile,
                   enhanced_path, metrics>>
    /\ UNCHANGED <<compared, dvars, xvars>>

CurStep == Steps(level)[step]

AtStage(ops) ==
    /\ pc = "stage"
    /\ step <= Len(Steps(level))
    /\ CurStep.op \in ops

Entry(st, inp, out, status) ==
    [step |-> st, inp |-> inp, out |-> out, status |-> status]

\* the stage returned `out`: the chain assigns it to audio and goes on;
\* after the last statement the chain returns and enhance_audio saves
Returned(out, status) ==
    /\ audio' = out
    /\ trace' = Append(trace, Entry(CurStep, audio, out, status))
    /\ step' = step + 1
    /\ pc' = IF step = Len(Steps(level)) THEN "save" ELSE "stage"
    /\ UNCHANGED <<failed, outcome>>

\* the stage raised: nothing in the chain catches it
Raised ==
    /\ trace' = Append(trace, Entry(CurStep, audio, audio, "raised"))
    /\ Raise("stage")
    /\ UNCHANGED <<audio, step>>

\* _normalize_audio: np.max of an empty array raises ValueError
Normalize ==
    /\ AtStage({"normalize"})
    /\ IF BufLen(audio) = 0
       THEN Raised
       ELSE Returned(Apply(audio, CurStep), "ok")
    /\ UNCHANGED <<level, file, loaded, verdicts, voiced_frames, enhFile,
                   enhanced_path, metrics>>
    /\ UNCHANGED <<compared, dvars, xvars>>

\* _remove_silence: the detector's answer for each full frame is an input
RemoveSilenceStage ==
    /\ AtStage({"remove_silence"})
    /\ \E vs \in [1 .. NumFrames(BufLen(audio)) -> Verdicts] :
          /\ verdicts' = vs
          /\ voiced_frames' = VoicedFrames(BufLen(audio), vs, CurStep.aggressive)
          /\ Returned(RemoveSilence(audio, vs, CurStep.aggressive), "ok")
    /\ UNCHANGED <<level, file, loaded, enhFile, enhanced_path, metrics>>
    /\ UNCHANGED <<compared, dvars, xvars>>

\* nr.reduce_noise(y=audio, sr=sr, prop_decrease=...): same length, or raises
ReduceNoise ==
    /\ AtStage({"reduce_noise"})
    /\ \E ok \in BOOLEAN :
          IF ok THEN Returned(Apply(audio, CurStep), "ok") ELSE Raised
    /\ UNCHANGED <<level, file, loaded, verdicts, voiced_frames, enhFile,
                   enhanced_path, metrics>>
    /\ UNCHANGED <<compared, dvars, xvars>>

\* _high_pass_filter: signal.butter + signal.sosfilt, same length, or raises
HighPass ==
    /\ AtStage({"high_pass"})
    /\ \E ok \in BOOLEAN :
          IF ok THEN Returned(Apply(audio, CurStep), "ok") ELSE Raised
    /\ UNCHANGED <<level, file, loaded, verdicts, voiced_frames, enhFile,
                   enhanced_path, metrics>>
    /\ UNCHANGED <<compared, dvars, xvars>>

\* _band_pass_filter: signal.butter + signal.sosfilt, same length, or raises
BandPass ==
    /\ AtStage({"band_pass"})
    /\ \E ok \in BOOLEAN :
          IF ok THEN Returned(Apply(audio, CurStep), "ok") ELSE Raised
    /\ UNCHANGED <<level, file, loaded, verdicts, voiced_frames, enhFile,
                   enhanced_path, metrics>>
    /\ UNCHANGED <<compared, dvars, xvars>>

\* _compress_dynamic_range: element-wise numpy arithmetic, same length
Compress ==
    /\ AtStage({"compress"})
    /\ Returned(Apply(audio, CurStep), "ok")
    /\ UNCHANGED <<level, file, loaded, verdicts, voiced_frames, enhFile,
                   enhanced_path, metrics>>
    /\ UNCHANGED <<compared, dvars, xvars>>

\* _spectral_subtraction: its own try/except returns the input on failure
SpectralSubtraction ==
    /\ AtStage({"spectral_subtraction"})
    /\ \E ok \in BOOLEAN :
          IF ok THEN Returned(Spectral(audio, CurStep), "ok")
          ELSE Returned(audio, "skipped")
    /\ UNCHANGED <<level, file, loaded, verdicts, voiced_frames, enhFile,
                   enhanced_path, metrics>>
    /\ UNCHANGED <<compared, dvars, xvars>>

\* _enhance_voice_frequencies: its own try/except returns the input on failure
EnhanceVoice ==
    /\ AtStage({"enhance_voice"})
    /\ \E ok \in BOOLEAN :
          IF ok THEN Returned(Spectral(audio, CurStep), "ok")
          ELSE Returned(audio, "skipped")
    /\ UNCHANGED <<level, file, loaded, verdicts, voiced_frames, enhFile,
                   enhanced_path, metrics>>
    /\ UNCHANGED <<compared, dvars, xvars>>

\* _save_audio: 16-bit PCM of the samples, same length
Pcm16(b) == Apply(b, St("pcm16", FALSE, <<>>))

\* self._save_audio(enhanced, sr, output_path); return output_path
Save ==
    /\ pc = "save"
    /\ \E ok \in BOOLEAN :
          IF ok
          THEN /\ enhFile' = Pcm16(audio)
               /\ enhanced_path' = "output_path"
               /\ pc' = "check"
               /\ UNCHANGED <<failed, outcome>>
          ELSE /\ Raise("save")
               /\ UNCHANGED <<enhFile, enhanced_path>>
    /\ UNCHANGED <<level, file, loaded, audio, step, trace, verdicts,
                   voiced_frames, metrics>>
    /\ UNCHANGED <<compared, dvars, xvars>>

\* except Exception: return file_path
Except ==
    /\ pc = "except"
    /\ enhanced_path' = "file_path"
    /\ pc' = "check"
    /\ UNCHANGED <<level, file, loaded, audio, step, trace, verdicts,
                   voiced_frames, failed, enhFile, metrics, outcome>>
    /\ UNCHANGED <<compared, dvars, xvars>>

MetricsWantedAlways(path) == TRUE

\* if enhanced_path != file_path
MetricsWanted(path) == path # "file_path"

\* metrics = audio_enhancer.get_audio_quality_metrics(file_path,
\* enhanced_path), which returns {"error": ...} when anything inside it raises
GetMetrics ==
    /\ pc = "check"
    /\ MetricsWanted(enhanced_path)
    /\ \E ok \in BOOLEAN : metrics' = IF ok THEN "report" ELSE "error"
    /\ compared' = <<"file_path", enhanced_path>>
    /\ outcome' = "returned"
    /\ pc' = "done"
    /\ UNCHANGED <<level, file, loaded, audio, step, trace, verdicts,
                   voiced_frames, failed, enhFile, enhanced_path>>
    /\ UNCHANGED <<dvars, xvars>>

\* else: metrics = {"enhancement": "skipped"}
SkipMetrics ==
    /\ pc = "check"
    /\ ~MetricsWanted(enhanced_path)
    /\ metrics' = "skipped"
    /\ outcome' = "returned"
    /\ pc' = "done"
    /\ UNCHANGED <<level, file, loaded, audio, step, trace, verdicts,
                   voiced_frames, failed, enhFile, enhanced_path>>
    /\ UNCHANGED <<compared, dvars, xvars>>

Next ==
    \/ Call
    \/ Load
    \/ Normalize
    \/ RemoveSilenceStage
    \/ ReduceNoise
    \/ HighPass
    \/ BandPass
    \/ Compress
    \/ SpectralSubtraction
    \/ EnhanceVoice
    \/ Save
    \/ Except
    \/ GetMetrics
    \/ SkipMetrics

Spec == Init /\ [][Next]_vars

\* the keys of the metrics dict the entry point returns
MetricsKeys(m) ==
    IF m = "report"
    THEN {"original_rms", "enhanced_rms", "original_snr_db", "enhanced_snr_db",
          "snr_improvement_db", "volume_change_db"}
    ELSE IF m = "error" THEN {"error"}
    ELSE IF m = "skipped" THEN {"enhancement"}
    ELSE {}

\* the audio the caller receives: the file the returned path names
ResultAudio == IF enhanced_path = "file_path" THEN file ELSE enhFile

TypeOK ==
    /\ pc \in {"idle", "load", "stage", "save", "except", "check", "done"}
    /\ level \in LevelInputs
    /\ loaded \in BOOLEAN
    /\ step \in 0 .. 9
    /\ failed \in {"none", "load", "stage", "save"}
    /\ enhanced_path \in {"none", "file_path", "output_path"}
    /\ metrics \in {"none", "skipped", "report", "error"}
    /\ outcome \in {"running", "returned", "raised"}

\* =========================================== stage functions on numbers
\* Squared quantities are exact rationals <<numerator, denominator>>;
\* <<0, 0>> stands for nan (0/0 and x/0 of numpy arithmetic).
Abs(x) == IF x < 0 THEN -x ELSE x

RECURSIVE Gcd(_, _)
Gcd(a, b) == IF b = 0 THEN a ELSE Gcd(b, a % b)

Rat(n, d) ==
    IF d = 0 THEN <<0, 0>>
    ELSE LET g == Gcd(Abs(n), d) IN <<n \div g, d \div g>>

RMul(a, b) ==
    IF a[2] = 0 \/ b[2] = 0 THEN <<0, 0>>
    ELSE LET g1 == Gcd(Abs(a[1]), b[2])
             g2 == Gcd(Abs(b[1]), a[2])
         IN Rat((a[1] \div g1) * (b[1] \div g2), (a[2] \div g2) * (b[2] \div g1))

\* a / b for b >= 0
RDiv(a, b) ==
    IF b[2] = 0 \/ b[1] = 0 THEN <<0, 0>>
    ELSE RMul(a, <<b[2], b[1]>>)

\* a > b; any comparison with nan is false
RGt(a, b) == a[2] # 0 /\ b[2] # 0 /\ a[1] * b[2] > b[1] * a[2]

\* A numeric buffer [runs, g]: runs is a sequence of <<v, c>>, c consecutive
\* samples of value v (full scale = 1), all multiplied by a gain whose
\* square is the rational g.
RECURSIVE NLen(_)
NLen(runs) == IF runs = <<>> THEN 0 ELSE Head(runs)[2] + NLen(Tail(runs))

RECURSIVE SumSq(_)
SumSq(runs) ==
    IF runs = <<>> THEN 0
    ELSE Head(runs)[2] * Head(runs)[1] * Head(runs)[1] + SumSq(Tail(runs))

RECURSIVE PeakV2(_)
PeakV2(runs) ==
    IF runs = <<>> THEN 0
    ELSE Max(Head(runs)[1] * Head(runs)[1], PeakV2(Tail(runs)))

\* np.mean(audio**2): nan for an empty array
MeanSq(nb) == RMul(Rat(SumSq(nb.runs), NLen(nb.runs)), nb.g)

\* np.max(np.abs(audio)) squared
PeakSq(nb) == RMul(<<PeakV2(nb.runs), 1>>, nb.g)

\* (10**(target_lufs/20))**2 = 10**-2.3, to three decimals
TargetRmsSq == <<1, 200>>

\* 0.95**2
ClipSq == <<361, 400>>

RmsDefined(nb) == MeanSq(nb)[2] # 0

\* if rms > 0
RmsPositive(nb) == MeanSq(nb)[2] # 0 /\ MeanSq(nb)[1] > 0

LoudnessGainPeak(nb) ==
    IF RmsPositive(nb)
    THEN RMul(nb.g, RDiv(TargetRmsSq, PeakSq(nb)))
    ELSE nb.g

\* audio * (target_rms / rms), as the squared gain of the result
LoudnessGain(nb) ==
    IF RmsPositive(nb)
    THEN RMul(nb.g, RDiv(TargetRmsSq, MeanSq(nb)))
    ELSE nb.g

\* if max_val > 0.95
Clips(nb) == RGt(PeakSq(nb), ClipSq)

\* audio * (0.95 / max_val), as the squared gain of the result
ClipGain(nb) ==
    IF Clips(nb) THEN RMul(nb.g, RDiv(ClipSq, PeakSq(nb))) ELSE nb.g

\* _normalize_audio: np.max of an empty array raises ValueError
NormalizeAudio(nb) ==
    LET a1 == [runs |-> nb.runs, g |-> LoudnessGain(nb)]
        a2 == [runs |-> nb.runs, g |-> ClipGain(a1)]
    IN IF NLen(nb.runs) = 0
       THEN [status |-> "raised", buf |-> nb,
             scaled |-> RmsPositive(nb), clipped |-> FALSE]
       ELSE [status |-> "returned", buf |-> a2,
             scaled |-> RmsPositive(nb), clipped |-> Clips(a1)]

Runs(v1, c1, v2, c2) ==
    (IF c1 = 0 THEN <<>> ELSE <<<<v1, c1>>>>) \o
    (IF c2 = 0 THEN <<>> ELSE <<<<v2, c2>>>>)

NormInputs ==
    {[runs |-> Runs(v1, c1, v2, c2), g |-> <<1, 1>>] :
        v1 \in -2 .. 2, c1 \in {0, 1, 2}, v2 \in {-1, 0, 1},
        c2 \in {0, 1, 179, 180, 181, 360}}

\* _normalize_audio(audio) called on a buffer
NormalizeCall ==
    /\ dop = "none"
    /\ \E nb \in NormInputs :
          /\ din' = nb
          /\ dout' = NormalizeAudio(nb)
    /\ dop' = "normalize"
    /\ UNCHANGED <<pvars, xvars>>

\* ---------------------------------------------------------- compression
\* A sample is [sign, db]: np.sign(x) and its level 20*log10(|x| + 1e-10) in
\* twelfths of a decibel (a magnitude is identified with that level); the
\* sample 0 has sign 0 and level -200 dB.
Db(x) == 12 * x

ZeroSample == [sign |-> 0, db |-> Db(-200)]

CompressedDbWhole(db, ratio, threshold) ==
    IF db > threshold THEN db \div ratio ELSE db

\* np.where(audio_db > threshold, threshold + (audio_db - threshold) / ratio,
\*          audio_db)
CompressedDb(db, ratio, threshold) ==
    IF db > threshold THEN threshold + (db - threshold) \div ratio ELSE db

\* np.sign(audio) * (10 ** (compressed_db / 20))
CompressSample(s, ratio, threshold) ==
    IF s.sign = 0 THEN ZeroSample
    ELSE [sign |-> s.sign, db |-> CompressedDb(s.db, ratio, threshold)]

\* _compress_dynamic_range(audio, ratio, threshold)
CompressDynamicRange(samples, ratio, threshold) ==
    [i \in 1 .. Len(samples) |-> CompressSample(samples[i], ratio, threshold)]

MaxSamples == 2

SampleSet ==
    {ZeroSample} \cup
    {[sign |-> sg, db |-> Db(l)] :
        sg \in {-1, 1}, l \in {-40, -21, -20, -19, -10, -2, 0, 6}}

\* the ratios the presets pass (default 3.0, aggressive 4.0); the threshold
\* is always the default -20.0
CompressInputs ==
    {[samples |-> ss, ratio |-> r, threshold |-> Db(-20)] :
        ss \in UNION {[1 .. n -> SampleSet] : n \in 0 .. MaxSamples},
        r \in {3, 4}}

\* _compress_dynamic_range called on a buffer
CompressCall ==
    /\ dop = "none"
    /\ \E a \in CompressInputs :
          /\ din' = a
          /\ dout' = CompressDynamicRange(a.samples, a.ratio, a.threshold)
    /\ dop' = "compress"
    /\ UNCHANGED <<pvars, xvars>>

\* -------------------------------------------------- spectral subtraction
\* A magnitude spectrogram is a sequence of runs [mags, count]: count
\* consecutive STFT frames whose magnitude in bin b is mags[b].
Alpha == 2

\* int(0.5 * sr / 512)
NoiseFrames == (SampleRate \div 2) \div Hop

RECURSIVE TotalFrames(_)
TotalFrames(runs) ==
    IF runs = <<>> THEN 0 ELSE Head(runs).count + TotalFrames(Tail(runs))

\* number of columns of magnitude[:, :noise_frames]
NoiseCount(runs) == Min(NoiseFrames, TotalFrames(runs))

\* sum of bin b over the first `left` frames
RECURSIVE NoiseSum(_, _, _)
NoiseSum(runs, b, left) ==
    IF runs = <<>> \/ left <= 0 THEN 0
    ELSE Head(runs).mags[b] * Min(Head(runs).count, left)
         + NoiseSum(Tail(runs), b, left - Head(runs).count)

EnhancedMagZeroFloor(m, nsum, cnt) == Max(10 * (m * cnt - Alpha * nsum), 0)

\* np.maximum(magnitude - alpha * noise_spectrum, 0.1 * magnitude), in units
\* of 1/(10*cnt) with noise_spectrum = nsum/cnt
EnhancedMag(m, nsum, cnt) ==
    Max(10 * (m * cnt - Alpha * nsum), m * cnt)

\* enhanced_magnitude of _spectral_subtraction
SpectralSubtract(runs) ==
    LET cnt == NoiseCount(runs)
    IN [scale |-> 10 * cnt,
        runs |-> [r \in 1 .. Len(runs) |->
                    [mags |-> [b \in DOMAIN runs[r].mags |->
                                 EnhancedMag(runs[r].mags[b],
                                             NoiseSum(runs, b, cnt), cnt)],
                     count |-> runs[r].count]]]

MaxBins == 2

MagSet == {0, 1, 5, 20}

SpectrogramInputs ==
    {(<<[mags |-> m1, count |-> c1]>> \o
      (IF c2 = 0 THEN <<>> ELSE <<[mags |-> m2, count |-> c2]>>)) :
        m1 \in [1 .. MaxBins -> MagSet], m2 \in [1 .. MaxBins -> MagSet],
        c1 \in {1, NoiseFrames - 1, NoiseFrames, NoiseFrames + 1},
        c2 \in {0, 1, 3}}

\* the subtraction of _spectral_subtraction applied to a spectrogram
SpectralSubtractCall ==
    /\ dop = "none"
    /\ \E sg \in SpectrogramInputs :
          /\ din' = sg
          /\ dout' = SpectralSubtract(sg)
    /\ dop' = "spectral"
    /\ UNCHANGED <<pvars, xvars>>

\* ------------------------------------------------ voice-band enhancement
\* freqs[k] = k * sr / n_fft for k = 0 .. n_fft/2
VoiceFundamental(k) ==
    k * SampleRate >= 85 * NFft /\ k * SampleRate <= 255 * NFft

VoiceHarmonicsFrom200(k) ==
    k * SampleRate >= 200 * NFft /\ k * SampleRate <= 4000 * NFft

VoiceHarmonics(k) ==
    k * SampleRate >= 300 * NFft /\ k * SampleRate <= 4000 * NFft

\* enhancement[k] after the two in-place multiplications, in 1/10000
Enhancement(k) ==
    (IF VoiceFundamental(k) THEN 120 ELSE 100)
      * (IF VoiceHarmonics(k) THEN 110 ELSE 100)

\* magnitude * enhancement and the phase of bin k in every frame; the
\* magnitudes of the result are in units of 1/10000
EnhanceVoiceBin(frames, k) ==
    [f \in 1 .. Len(frames) |->
        [mag |-> frames[f].mag * Enhancement(k), phase |-> frames[f].phase]]

MaxVoiceFrames == 2

\* np.abs / np.angle of one STFT cell; the angle of 0 is 0
CellSet ==
    {[mag |-> 0, phase |-> 0], [mag |-> 3, phase |-> -1], [mag |-> 3, phase |-> 1]}

VoiceInputs ==
    {[bin |-> k, frames |-> fs] :
        k \in 0 .. NFft \div 2,
        fs \in UNION {[1 .. n -> CellSet] : n \in 1 .. MaxVoiceFrames}}

\* the reweighting of _enhance_voice_frequencies applied to one bin
EnhanceVoiceCall ==
    /\ dop = "none"
    /\ \E a \in VoiceInputs :
          /\ din' = a
          /\ dout' = EnhanceVoiceBin(a.frames, a.bin)
    /\ dop' = "voice"
    /\ UNCHANGED <<pvars, xvars>>

\* ------------------------------------------------------- quality metrics
\* A decibel value 10*log10(p) is carried as its power ratio p, an exact
\* rational: <<1, 1>> is 0 dB, <<100, 1>> is 20 dB, <<1000000, 1>> is 60 dB,
\* <<0, 1>> is -inf (log10 of 0) and <<0, 0>> is nan.  An RMS is carried as
\* its square, the mean square.
Db0 == <<1, 1>>

Db20 == <<100, 1>>

Db60 == <<1000000, 1>>

\* p < k and p > k for a rational p >= 0 and an integer k, without forming
\* k * denominator; false for nan
RLtInt(p, k) == p[2] # 0 /\ p[1] \div p[2] < k

RGtInt(p, k) ==
    /\ p[2] # 0
    /\ \/ p[1] \div p[2] > k
       \/ p[1] \div p[2] = k /\ p[1] % p[2] # 0

RECURSIVE SeqSum(_)
SeqSum(s) == IF s = <<>> THEN 0 ELSE Head(s) + SeqSum(Tail(s))

RECURSIVE SeqSumSq(_)
SeqSumSq(s) == IF s = <<>> THEN 0 ELSE Head(s) * Head(s) + SeqSumSq(Tail(s))

\* np.var(a) = mean(a**2) - mean(a)**2; nan for an empty array
Var(s) == Rat(Len(s) * SeqSumSq(s) - SeqSum(s) * SeqSum(s), Len(s) * Len(s))

\* np.sqrt(np.mean(a**2)), squared; nan for an empty array
RmsSq(s) == Rat(SeqSumSq(s), Len(s))

RECURSIVE Insert(_, _)
Insert(x, s) ==
    IF s = <<>> THEN <<x>>
    ELSE IF x <= Head(s) THEN <<x>> \o s
    ELSE <<Head(s)>> \o Insert(x, Tail(s))

RECURSIVE Sort(_)
Sort(s) == IF s = <<>> THEN <<>> ELSE Insert(Head(s), Sort(Tail(s)))

\* np.sort(np.abs(audio))
SortAbs(s) == Sort([i \in DOMAIN s |-> Abs(s[i])])

NoiseSamplesUnsorted(s) ==
    SubSeq([i \in DOMAIN s |-> Abs(s[i])], 1, Len(s) \div 4)

\* audio_sorted[:len(audio_sorted)//4]
NoiseSamples(s) == SubSeq(SortAbs(s), 1, Len(s) \div 4)

ClampNoFloor(snr) == IF RLtInt(snr, 1000000) THEN snr ELSE Db60

\* max(0, min(60, snr)) of Python: min keeps 60 unless snr < 60, max keeps
\* 0 unless the result is > 0
Clamp(snr) ==
    LET m == IF RLtInt(snr, 1000000) THEN snr ELSE Db60
    IN IF RGtInt(m, 1) THEN m ELSE Db0

\* _estimate_snr(audio); a.numeric is false for an argument np.var cannot
\* reduce, which raises inside the try
EstimateSnr(a) ==
    IF ~a.numeric THEN Db20
    ELSE LET signal_power == Var(a.array)
             noise_power == Var(NoiseSamples(a.array))
             snr == IF RGt(noise_power, <<0, 1>>)
                    THEN RDiv(signal_power, noise_power)
                    ELSE Db60
         IN Clamp(snr)

MaxLoud == 3

Repeat(v, c) == [i \in 1 .. c |-> v]

QuietParts == UNION {[1 .. n -> {-1, 0, 1, 10}] : n \in 0 .. 2}

\* up to two quiet samples followed by two runs of louder ones
SnrInputs ==
    {q \o Repeat(v2, c2) \o Repeat(v3, c3) :
        q \in QuietParts,
        v2 \in {-1000, -10, 10}, c2 \in 0 .. MaxLoud,
        v3 \in {0, 10, 1000}, c3 \in 0 .. MaxLoud}

SnrArguments ==
    {[array |-> s, numeric |-> TRUE] : s \in SnrInputs} \cup
    {[array |-> <<>>, numeric |-> FALSE]}

\* self._estimate_snr(audio)
EstimateSnrCall ==
    /\ dop = "none"
    /\ \E a \in SnrArguments :
          /\ din' = a
          /\ dout' = EstimateSnr(a)
    /\ dop' = "snr"
    /\ UNCHANGED <<pvars, xvars>>

VolumeChangeUnguarded(orig_rms, enh_rms) == RDiv(enh_rms, orig_rms)

\* 20 * np.log10(enh_rms / orig_rms) if orig_rms > 0 else 0: log10 of 0 is
\* -inf and of nan is nan, with a warning and no exception
VolumeChange(orig_rms, enh_rms) ==
    IF RGt(orig_rms, <<0, 1>>) THEN RDiv(enh_rms, orig_rms) ELSE Db0

\* get_audio_quality_metrics on what the two librosa.load calls decoded;
\* loads_ok is false when one of them raises
QualityMetrics(orig_audio, enh_audio, loads_ok) ==
    IF ~loads_ok THEN [error |-> "load"]
    ELSE LET orig_rms == RmsSq(orig_audio)
             enh_rms == RmsSq(enh_audio)
             orig_snr == EstimateSnr([array |-> orig_audio, numeric |-> TRUE])
             enh_snr == EstimateSnr([array |-> enh_audio, numeric |-> TRUE])
         IN [original_rms |-> orig_rms,
             enhanced_rms |-> enh_rms,
             original_snr_db |-> orig_snr,
             enhanced_snr_db |-> enh_snr,
             snr_improvement_db |-> RDiv(enh_snr, orig_snr),
             volume_change_db |-> VolumeChange(orig_rms, enh_rms)]

MetricBuffers ==
    {q \o Repeat(v2, c2) \o Repeat(v3, c3) :
        q \in {<<>>, <<0, 1>>},
        v2 \in {-10, 10}, c2 \in {0, MaxLoud},
        v3 \in {0, 1000}, c3 \in {0, MaxLoud}}

MetricArguments ==
    {[orig |-> o, enh |-> e, loads_ok |-> TRUE] :
        o \in MetricBuffers, e \in MetricBuffers} \cup
    {[orig |-> <<>>, enh |-> <<>>, loads_ok |-> FALSE]}

\* self.get_audio_quality_metrics(original_path, enhanced_path)
QualityMetricsCall ==
    /\ dop = "none"
    /\ \E a \in MetricArguments :
          /\ din' = a
          /\ dout' = QualityMetrics(a.orig, a.enh, a.loads_ok)
    /\ dop' = "metrics"
    /\ UNCHANGED <<pvars, xvars>>

NextDsp ==
    \/ NormalizeCall
    \/ CompressCall
    \/ SpectralSubtractCall
    \/ EnhanceVoiceCall
    \/ EstimateSnrCall
    \/ QualityMetricsCall

SpecDsp == Init /\ [][NextDsp]_vars

\* ======================== two invocations sharing the global AudioEnhancer
MaxGateFrames == 2

\* what a 30 ms frame holds
FrameKinds == {"voice", "quiet"}

FrameSeqs == UNION {[1 .. n -> FrameKinds] : n \in 1 .. MaxGateFrames}

\* hang-over of the detector after a speech frame, in frames
OverHang == 2

\* self.vad.is_speech(frame_bytes, sr) on the detector created once in
\* __init__: a frame without speech is still reported as speech while the
\* hang-over counter left by earlier speech frames runs down
VadIsSpeech(over_hang, kind) ==
    [is_speech |-> kind = "voice" \/ over_hang > 0,
     over_hang |-> IF kind = "voice" THEN OverHang ELSE Max(over_hang - 1, 0)]

\* what _remove_silence returns, as indices of the frames of its input
GateResult(frames, voiced_frames_) ==
    IF voiced_frames_ # <<>> THEN voiced_frames_
    ELSE [k \in 1 .. Len(frames) |-> k]

\* enhance_audio_for_transcription(file_path, level) starts
Invoke(i) ==
    /\ ipc[i] = "idle"
    /\ \E p \in InputPaths, fr \in FrameSeqs, ag \in BOOLEAN :
          /\ \A j \in Inv \ {i} : inputs[j].path # p
          /\ inputs' = [inputs EXCEPT
                           ![i] = [path |-> p, frames |-> fr, aggressive |-> ag]]
    /\ ipc' = [ipc EXCEPT ![i] = "gate"]
    /\ frame_i' = [frame_i EXCEPT ![i] = 1]
    /\ voiced' = [voiced EXCEPT ![i] = <<>>]
    /\ UNCHANGED <<vad, disk, converted, touched>>
    /\ UNCHANGED <<pvars, dvars, tvars>>

\* one iteration of the loop of _remove_silence
GateFrame(i) ==
    /\ ipc[i] = "gate"
    /\ LET k == frame_i[i]
           v == VadIsSpeech(vad, inputs[i].frames[k])
           verdict == IF v.is_speech THEN "speech" ELSE "nonspeech"
       IN /\ vad' = v.over_hang
          /\ voiced' = [voiced EXCEPT
                           ![i] = IF Keep(verdict, inputs[i].aggressive)
                                  THEN Append(@, k) ELSE @]
          /\ frame_i' = [frame_i EXCEPT ![i] = k + 1]
          /\ ipc' = [ipc EXCEPT
                        ![i] = IF k = Len(inputs[i].frames) THEN "save" ELSE "gate"]
    /\ UNCHANGED <<inputs, disk, converted, touched>>
    /\ UNCHANGED <<pvars, dvars, tvars>>

\* self._save_audio(enhanced, sr, output_path)
SaveEnhanced(i) ==
    /\ ipc[i] = "save"
    /\ LET o == OutputPath(inputs[i].path)
       IN /\ disk' = [disk EXCEPT
                         ![o] = [owner |-> i,
                                 audio |-> GateResult(inputs[i].frames, voiced[i])]]
          /\ touched' = touched \cup {[inv |-> i, op |-> "write", path |-> o]}
    /\ ipc' = [ipc EXCEPT ![i] = "convert"]
    /\ UNCHANGED <<inputs, frame_i, voiced, vad, converted>>
    /\ UNCHANGED <<pvars, dvars, tvars>>

\* the caller's AudioSegment.from_file(enhanced_file_path): a missing file
\* raises and the caller goes on with the original
ConvertEnhanced(i) ==
    /\ ipc[i] = "convert"
    /\ LET o == OutputPath(inputs[i].path)
       IN /\ converted' = [converted EXCEPT ![i] = disk[o]]
          /\ ipc' = [ipc EXCEPT
                        ![i] = IF disk[o] = NoFile THEN "done" ELSE "cleanup"]
    /\ UNCHANGED <<inputs, frame_i, voiced, vad, disk, touched>>
    /\ UNCHANGED <<pvars, dvars, tvars>>

\* the caller's os.remove(enhanced_file_path) when the path exists
RemoveEnhanced(i) ==
    /\ ipc[i] = "cleanup"
    /\ LET o == OutputPath(inputs[i].path)
       IN IF disk[o] # NoFile
          THEN /\ disk' = [disk EXCEPT ![o] = NoFile]
               /\ touched' = touched \cup
                                {[inv |-> i, op |-> "remove", path |-> o]}
          ELSE UNCHANGED <<disk, touched>>
    /\ ipc' = [ipc EXCEPT ![i] = "done"]
    /\ UNCHANGED <<inputs, frame_i, voiced, vad, converted>>
    /\ UNCHANGED <<pvars, dvars, tvars>>

NextShared ==
    \/ \E i \in Inv : Invoke(i)
    \/ \E i \in Inv : GateFrame(i)
    \/ \E i \in Inv : SaveEnhanced(i)
    \/ \E i \in Inv : ConvertEnhanced(i)
    \/ \E i \in Inv : RemoveEnhanced(i)

SpecShared == Init /\ [][NextShared]_vars

\* ================================== transcribe_audio and /transcribe
\* Files are named by the variable that holds their path: "file_path" the
\* input, "enhanced" the enhancer's output, "enhanced_wav" the file
\* enhanced_<uuid4>.wav, "wav" the file <uuid4>.wav.
TempFiles == {"enhanced", "enhanced_wav", "wav"}

FailedMetricsNoError(e) == Metrics("failed", "none")

\* audio_metrics = {"enhancement": "failed", "error": str(e)}
FailedMetrics(e) == Metrics("failed", e)

\* the dict returned when the original cannot be converted
AudioProcessingFailed ==
    [kind |-> "error", success |-> FALSE, error |-> "Audio processing failed"]

\* the dict returned when the model cannot be loaded
ModelLoadFailed ==
    [kind |-> "error", success |-> FALSE,
     error |-> "Failed to load Whisper model"]

RemovesEnhancedAlways(path, existing) == path \in existing

\* if enhanced_file_path != file_path and os.path.exists(enhanced_file_path)
RemovesEnhanced(path, existing) == path # "file_path" /\ path \in existing

\* transcribe_audio is entered with the input file in place
Enter(who, enhance) ==
    /\ via' = who
    /\ enhance_audio' = enhance
    /\ \E a \in BOOLEAN : available' = a
    /\ \E m \in {"none", "loaded"} : model' = m
    /\ files' = {"file_path"}
    /\ tpc' = "step1"
    /\ UNCHANGED <<enhanced_file_path, wav_path, audio_metrics, result,
                   raised_at, removals, response>>
    /\ UNCHANGED <<pvars, dvars, svars>>

\* the /transcribe handler: the upload is written to temp_filename and
\* transcribe_audio is called with the hardcoded enhance_audio = True
HandlerEntry ==
    /\ tpc = "idle"
    /\ Enter("handler", TRUE)

\* transcribe_audio called by any other caller
DirectCall ==
    /\ tpc = "idle"
    /\ \E e \in BOOLEAN : Enter("direct", e)

\* a call of the audio preparation raised
PrepRaised(site) == raised_at' = Append(raised_at, site)

\* enhanced_file_path, audio_metrics = enhance_audio_for_transcription(...)
EnhanceStep ==
    /\ tpc = "step1"
    /\ enhance_audio /\ available
    /\ \E out \in {"fallback", "report", "error", "raise"} :
          IF out = "raise"
          THEN /\ PrepRaised("enhance")
               /\ tpc' = "fallback"
               /\ UNCHANGED <<enhanced_file_path, audio_metrics, files>>
          ELSE /\ enhanced_file_path' =
                      IF out = "fallback" THEN "file_path" ELSE "enhanced"
               /\ audio_metrics' =
                      Metrics(IF out = "fallback" THEN "skipped" ELSE out, "none")
               /\ files' = IF out = "fallback" THEN files
                           ELSE files \cup {"enhanced"}
               /\ tpc' = "convert_enhanced"
               /\ UNCHANGED raised_at
    /\ UNCHANGED <<via, enhance_audio, available, wav_path, model, result,
                   removals, response>>
    /\ UNCHANGED <<pvars, dvars, svars>>

\* AudioSegment.from_file(enhanced_file_path); wav_path = enhanced_<uuid>.wav;
\* audio.export(wav_path): a failed export may leave the file behind
ConvertEnhancedFile ==
    /\ tpc = "convert_enhanced"
    /\ \E out \in {"ok", "from_file", "export", "export_left"} :
          /\ wav_path' = IF out = "from_file" THEN wav_path ELSE "enhanced_wav"
          /\ files' = IF out \in {"ok", "export_left"}
                      THEN files \cup {"enhanced_wav"} ELSE files
          /\ IF out = "ok"
             THEN /\ tpc' = "remove_enhanced"
                  /\ UNCHANGED raised_at
             ELSE /\ PrepRaised(IF out = "from_file" THEN "from_file_enhanced"
                                ELSE "export_enhanced")
                  /\ tpc' = "fallback"
    /\ UNCHANGED <<via, enhance_audio, available, enhanced_file_path,
                   audio_metrics, model, result, removals, response>>
    /\ UNCHANGED <<pvars, dvars, svars>>

\* the clean-up of the enhanced file inside the inner try
RemoveEnhancedFile ==
    /\ tpc = "remove_enhanced"
    /\ IF RemovesEnhanced(enhanced_file_path, files)
       THEN \E ok \in BOOLEAN :
               IF ok
               THEN /\ files' = files \ {enhanced_file_path}
                    /\ removals' = Append(removals,
                                      <<"transcribe_audio", enhanced_file_path>>)
                    /\ tpc' = "step2"
                    /\ UNCHANGED raised_at
               ELSE /\ PrepRaised("remove_enhanced")
                    /\ tpc' = "fallback"
                    /\ UNCHANGED <<files, removals>>
       ELSE /\ tpc' = "step2"
            /\ UNCHANGED <<files, removals, raised_at>>
    /\ UNCHANGED <<via, enhance_audio, available, enhanced_file_path, wav_path,
                   audio_metrics, model, result, response>>
    /\ UNCHANGED <<pvars, dvars, svars>>

\* AudioSegment.from_file(file_path); wav_path = <uuid>.wav; export: on
\* success `metrics` becomes audio_metrics, on failure the error dict is
\* returned
ConvertFilePath(metrics_) ==
    \E out \in {"ok", "from_file", "export", "export_left"} :
        /\ wav_path' = IF out = "from_file" THEN wav_path ELSE "wav"
        /\ files' = IF out \in {"ok", "export_left"}
                    THEN files \cup {"wav"} ELSE files
        /\ IF out = "ok"
           THEN /\ audio_metrics' = metrics_
                /\ tpc' = "step2"
                /\ UNCHANGED <<raised_at, result>>
           ELSE /\ PrepRaised(IF out = "from_file" THEN "from_file_original"
                              ELSE "export_original")
                /\ result' = AudioProcessingFailed
                /\ tpc' = "returned"
                /\ UNCHANGED audio_metrics

\* either except branch of step 1: fall back to the original audio
ConvertOriginalFallback ==
    /\ tpc = "fallback"
    /\ ConvertFilePath(FailedMetrics(raised_at[Len(raised_at)]))
    /\ UNCHANGED <<via, enhance_audio, available, enhanced_file_path, model,
                   removals, response>>
    /\ UNCHANGED <<pvars, dvars, svars>>

\* the else branch of step 1: enhancement disabled or not importable
ConvertOriginal ==
    /\ tpc = "step1"
    /\ ~(enhance_audio /\ available)
    /\ ConvertFilePath(Metrics(IF ~enhance_audio THEN "disabled"
                               ELSE "not_available", "none"))
    /\ UNCHANGED <<via, enhance_audio, available, enhanced_file_path, model,
                   removals, response>>
    /\ UNCHANGED <<pvars, dvars, svars>>

\* if model is None: whisper.load_model
LoadModel ==
    /\ tpc = "step2"
    /\ IF model = "none"
       THEN \E ok \in BOOLEAN :
               IF ok
               THEN /\ model' = "loaded"
                    /\ tpc' = "transcribe"
                    /\ UNCHANGED <<result, raised_at>>
               ELSE /\ raised_at' = Append(raised_at, "load_model")
                    /\ result' = ModelLoadFailed
                    /\ tpc' = "returned"
                    /\ UNCHANGED model
       ELSE /\ tpc' = "transcribe"
            /\ UNCHANGED <<model, result, raised_at>>
    /\ UNCHANGED <<via, enhance_audio, available, files, enhanced_file_path,
                   wav_path, audio_metrics, removals, response>>
    /\ UNCHANGED <<pvars, dvars, svars>>

\* result = model.transcribe(wav_path, ...): an exception leaves the function
Transcribe ==
    /\ tpc = "transcribe"
    /\ \E ok \in BOOLEAN :
          IF ok
          THEN /\ tpc' = "remove_wav"
               /\ UNCHANGED <<result, raised_at>>
          ELSE /\ raised_at' = Append(raised_at, "transcribe")
               /\ result' = [kind |-> "raised", success |-> FALSE,
                             error |-> "transcribe"]
               /\ tpc' = "returned"
    /\ UNCHANGED <<via, enhance_audio, available, files, enhanced_file_path,
                   wav_path, audio_metrics, model, removals, response>>
    /\ UNCHANGED <<pvars, dvars, svars>>

\* if os.path.exists(wav_path): os.remove(wav_path)
RemoveWav ==
    /\ tpc = "remove_wav"
    /\ IF wav_path \in files
       THEN /\ files' = files \ {wav_path}
            /\ removals' = Append(removals, <<"transcribe_audio", wav_path>>)
       ELSE UNCHANGED <<files, removals>>
    /\ tpc' = "post"
    /\ UNCHANGED <<via, enhance_audio, available, enhanced_file_path, wav_path,
                   audio_metrics, model, result, raised_at, response>>
    /\ UNCHANGED <<pvars, dvars, svars>>

\* steps 3 to 5: text enhancement, translation, the result dict
PostProcess ==
    /\ tpc = "post"
    /\ \E ok \in BOOLEAN :
          IF ok
          THEN /\ result' = [kind |-> "ok", success |-> TRUE, error |-> "none"]
               /\ UNCHANGED raised_at
          ELSE /\ raised_at' = Append(raised_at, "post")
               /\ result' = [kind |-> "raised", success |-> FALSE,
                             error |-> "post"]
    /\ tpc' = "returned"
    /\ UNCHANGED <<via, enhance_audio, available, files, enhanced_file_path,
                   wav_path, audio_metrics, model, removals, response>>
    /\ UNCHANGED <<pvars, dvars, svars>>

\* the handler after the call: an error result becomes HTTPException(500),
\* an exception passes through, anything else is the response
HandlerCheck ==
    /\ tpc = "returned"
    /\ via = "handler"
    /\ response' = IF result.kind = "raised" THEN "raised"
                   ELSE IF result.kind = "error" THEN "500"
                   ELSE "200"
    /\ tpc' = "finally"
    /\ UNCHANGED <<via, enhance_audio, available, files, enhanced_file_path,
                   wav_path, audio_metrics, model, result, raised_at, removals>>
    /\ UNCHANGED <<pvars, dvars, svars>>

\* finally: os.remove(temp_filename), which raises when the file is gone
HandlerFinally ==
    /\ tpc = "finally"
    /\ IF "file_path" \in files
       THEN /\ files' = files \ {"file_path"}
            /\ removals' = Append(removals, <<"handler", "file_path">>)
            /\ UNCHANGED response
       ELSE /\ response' = "raised"
            /\ UNCHANGED <<files, removals>>
    /\ tpc' = "finished"
    /\ UNCHANGED <<via, enhance_audio, available, enhanced_file_path, wav_path,
                   audio_metrics, model, result, raised_at>>
    /\ UNCHANGED <<pvars, dvars, svars>>

NextTranscribe ==
    \/ HandlerEntry
    \/ DirectCall
    \/ EnhanceStep
    \/ ConvertEnhancedFile
    \/ RemoveEnhancedFile
    \/ ConvertOriginalFallback
    \/ ConvertOriginal
    \/ LoadModel
    \/ Transcribe
    \/ RemoveWav
    \/ PostProcess
    \/ HandlerCheck
    \/ HandlerFinally

SpecTranscribe == Init /\ [][NextTranscribe]_vars

\* ================================================================ claims
PresetNames == {"light", "medium", "aggressive"}

Range(f) == {f[i] : i \in DOMAIN f}

\* control has left the preset chain of an invocation whose load succeeded
ChainLeft == loaded /\ pc \in {"save", "except", "check", "done"}

\* the preset chain ran to its last statement
ChainCompleted == loaded /\ step > Len(Steps(level))

\* C1: if a single stage raises, only that stage is skipped (the buffer that
\* entered it is passed on unmodified), every remaining stage of the preset
\* still runs, and the work of the stages that succeeded is not abandoned.
C1_StageFailureSkipsOnlyThatStage ==
    (ChainLeft /\ BufLen(file) > 0) =>
        /\ Len(trace) = Len(Steps(level))
        /\ \A i \in 1 .. Len(trace) :
              trace[i].status = "raised" => trace[i].out = trace[i].inp
        /\ (pc = "done" /\ failed = "stage") => enhanced_path = "output_path"

\* the caller's audio is the original input or the saved output of a chain
\* that ran to its end
Usable ==
    \/ enhanced_path = "file_path" /\ ResultAudio = file
    \/ /\ enhanced_path = "output_path"
       /\ ChainCompleted
       /\ ResultAudio = Pcm16(audio)
       /\ BufLen(ResultAudio) > 0

\* C2: whatever fails (load, a stage, save, metrics), the entry point returns
\* normally with a usable audio result and no exception reaches the caller.
C2_AlwaysReturnsUsableAudio ==
    /\ outcome # "raised"
    /\ pc = "done" => (outcome = "returned" /\ Usable /\ metrics # "none")

C2_Witness ==
    /\ pc = "done"
    /\ outcome = "returned"
    /\ failed = "load"
    /\ ResultAudio = file

\* C3: a failed load runs no stage and yields the original input with the
\* "skipped" metrics, and it is the only failure that yields this fallback.
C3_OnlyLoadFailureFallsBack ==
    (pc = "done" /\ BufLen(file) > 0) =>
        /\ failed = "load" =>
              (trace = <<>> /\ ResultAudio = file /\ metrics = "skipped")
        /\ (enhanced_path = "file_path" /\ metrics = "skipped") =>
              failed = "load"

\* the preset table of the specification: the stages a preset has, and
\* whether it ends with a second (final) normalize
TableStages(lvl) ==
    IF lvl = "light"
    THEN {St("normalize", FALSE, <<>>), St("reduce_noise", FALSE, <<80>>),
          St("high_pass", FALSE, <<80>>)}
    ELSE IF lvl = "medium"
    THEN {St("normalize", FALSE, <<>>), St("remove_silence", FALSE, <<>>),
          St("reduce_noise", FALSE, <<90>>), St("band_pass", FALSE, <<80, 7000>>),
          St("compress", FALSE, <<3>>)}
    ELSE {St("normalize", FALSE, <<>>), St("remove_silence", TRUE, <<>>),
          St("reduce_noise", FALSE, <<95>>), St("band_pass", FALSE, <<100, 6000>>),
          St("spectral_subtraction", FALSE, <<>>), St("enhance_voice", FALSE, <<>>),
          St("compress", FALSE, <<4>>)}

TableFinalNormalize(lvl) == lvl # "light"

NormalizeRuns == {i \in 1 .. Len(trace) : trace[i].step.op = "normalize"}

\* C4: each preset runs exactly the stages and parameters of the preset
\* table: none that the table marks absent, all that it marks present.
C4_PresetTable ==
    level \in PresetNames =>
        /\ \A i \in 1 .. Len(trace) : trace[i].step \in TableStages(level)
        /\ ChainCompleted =>
              /\ {trace[i].step : i \in 1 .. Len(trace)} = TableStages(level)
              /\ Cardinality(NormalizeRuns) =
                    IF TableFinalNormalize(level) THEN 2 ELSE 1
              /\ Len(trace) = Cardinality(TableStages(level))
                                + Cardinality(NormalizeRuns) - 1

C4_Witness ==
    /\ level = "medium"
    /\ ChainCompleted
    /\ pc = "save"

\* position of a stage in the order the preset table lists the stages
TableRank(op, i) ==
    CASE op = "normalize" -> IF i = 1 THEN 1 ELSE 8
      [] op = "remove_silence" -> 2
      [] op = "reduce_noise" -> 3
      [] op \in {"high_pass", "band_pass"} -> 4
      [] op = "spectral_subtraction" -> 5
      [] op = "enhance_voice" -> 6
      [] op = "compress" -> 7

\* position of a stage in the order of the chains' numbered statements
CodeRank(op, i) ==
    CASE op = "normalize" -> IF i = 1 THEN 1 ELSE 8
      [] op = "remove_silence" -> 2
      [] op = "reduce_noise" -> 3
      [] op = "spectral_subtraction" -> 4
      [] op \in {"high_pass", "band_pass"} -> 5
      [] op = "enhance_voice" -> 6
      [] op = "compress" -> 7

\* each stage consumes the previous stage's output, the first the loaded audio
DataFlow ==
    /\ Len(trace) >= 1 => trace[1].inp = file
    /\ \A i \in 1 .. Len(trace) - 1 : trace[i + 1].inp = trace[i].out

\* C5 as stated: stages run in the table's order, band-pass before spectral
\* subtraction in the Aggressive preset.
C5_TableOrder ==
    /\ DataFlow
    /\ \A i \in 1 .. Len(trace) - 1 :
          TableRank(trace[i].step.op, i) < TableRank(trace[i + 1].step.op, i + 1)

\* C5 amended: stages run in the order normalize, gate, noise reduction,
\* spectral subtraction, high/band-pass, voice-band enhancement, compression,
\* final normalize, each consuming the previous stage's output; in the
\* Aggressive preset spectral subtraction runs before the band-pass filter.
C5_CodeOrder ==
    /\ DataFlow
    /\ \A i \in 1 .. Len(trace) - 1 :
          CodeRank(trace[i].step.op, i) < CodeRank(trace[i + 1].step.op, i + 1)

C5_Witness ==
    /\ level = "aggressive"
    /\ ChainCompleted
    /\ \E i \in 1 .. Len(trace) - 1 :
          /\ trace[i].step.op = "spectral_subtraction"
          /\ trace[i].status = "ok"
          /\ trace[i + 1].step.op = "band_pass"
          /\ trace[i + 1].inp = trace[i].out

\* C6 as stated: a level outside light/medium/aggressive runs no preset's
\* stages and surfaces an error result to the caller.
C6_ImpossiblePresetIsError ==
    level \notin PresetNames =>
        /\ trace = <<>>
        /\ pc = "done" => (outcome = "raised" \/ metrics = "error")

\* C6 amended: a level outside light/medium/aggressive runs the Medium
\* preset's stages and surfaces no error for it; no failure of any kind is
\* raised to the caller.
C6_UnknownLevelRunsMedium ==
    /\ outcome # "raised"
    /\ level \notin PresetNames =>
          /\ Len(trace) <= Len(MediumSteps)
          /\ \A i \in 1 .. Len(trace) : trace[i].step = MediumSteps[i]
          /\ ChainCompleted => Len(trace) = Len(MediumSteps)

C6_Witness ==
    /\ level \notin PresetNames
    /\ pc = "done"
    /\ enhanced_path = "output_path"
    /\ metrics = "report"
    /\ Len(trace) = Len(MediumSteps)

\* C7: for every preset and input the enhanced output is never longer than
\* the input, apart from a drift of at most one hop (512 samples).
C7_OutputNotLonger ==
    /\ loaded => BufLen(audio) <= BufLen(file) + Hop
    /\ pc = "done" => BufLen(ResultAudio) <= BufLen(file) + Hop

C7_Witness ==
    /\ pc = "done"
    /\ level = "aggressive"
    /\ enhanced_path = "output_path"
    /\ \E i \in 1 .. Len(trace) :
          /\ trace[i].step.op = "spectral_subtraction"
          /\ trace[i].status = "ok"
          /\ BufLen(trace[i].out) < BufLen(trace[i].inp)
    /\ BufLen(ResultAudio) < BufLen(file)

\* the gate calls made so far (at most one per chain)
GateCalls == {i \in 1 .. Len(trace) : trace[i].step.op = "remove_silence"}

\* every sample of the run of samples r is in buffer b / no sample of r is
Covered(b, r) ==
    \A x \in Range(r) : \E y \in Range(b.segs) : y[1] <= x[1] /\ x[2] <= y[2]

Absent(b, r) ==
    \A x \in Range(r) : \A y \in Range(b.segs) : y[2] <= x[1] \/ x[2] <= y[1]

\* C8: a full frame on which the detector answers is retained iff it is
\* classified speech or aggressive is false.
C8_RetentionPolicy ==
    \A g \in GateCalls :
        /\ Len(verdicts) = NumFrames(BufLen(trace[g].inp))
        /\ \A k \in 1 .. Len(verdicts) :
              verdicts[k] # "raise" =>
                 LET kept == verdicts[k] = "speech" \/ ~trace[g].step.aggressive
                 IN /\ (k \in Range(voiced_frames)) <=> kept
                    /\ kept => Covered(trace[g].out, FrameAt(trace[g].inp, k))
                    /\ (~kept /\ voiced_frames # <<>>) =>
                          Absent(trace[g].out, FrameAt(trace[g].inp, k))

C8_Witness ==
    \E g \in GateCalls :
        /\ trace[g].step.aggressive
        /\ \E k \in 1 .. Len(verdicts) :
              verdicts[k] = "speech" /\ k \in Range(voiced_frames)
        /\ \E k \in 1 .. Len(verdicts) :
              verdicts[k] = "nonspeech" /\ k \notin Range(voiced_frames)

\* C9 as stated: with aggressive=False the gate returns a buffer of the
\* same length as its input, whatever the detector answers.
C9_GateNoOpSameLength ==
    \A g \in GateCalls :
        ~trace[g].step.aggressive =>
            BufLen(trace[g].out) = BufLen(trace[g].inp)

\* C9 amended: with aggressive=False the gate retains every full frame
\* whatever the detector answers: the output has the input's length less
\* its trailing partial frame when the input holds at least one full frame,
\* and the input's length otherwise.
C9_GateNoOpFullFrames ==
    \A g \in GateCalls :
        ~trace[g].step.aggressive =>
            LET n == BufLen(trace[g].inp)
            IN BufLen(trace[g].out) =
                  IF n >= FrameLength THEN FrameLength * (n \div FrameLength)
                  ELSE n

C9_Witness ==
    \E g \in GateCalls :
        /\ ~trace[g].step.aggressive
        /\ Len(verdicts) >= 2
        /\ \A k \in 1 .. Len(verdicts) : verdicts[k] = "nonspeech"
        /\ BufLen(trace[g].inp) % FrameLength # 0
        /\ BufLen(trace[g].out) = FrameLength * Len(verdicts)

\* C10: the gate never returns an empty buffer for a non-empty input; when
\* no frame is retained it returns the input unchanged, tail included.
C10_GateNeverEmpty ==
    \A g \in GateCalls :
        /\ BufLen(trace[g].inp) > 0 => BufLen(trace[g].out) > 0
        /\ voiced_frames = <<>> => trace[g].out = trace[g].inp

C10_Witness ==
    \E g \in GateCalls :
        /\ trace[g].step.aggressive
        /\ Len(verdicts) >= 1
        /\ voiced_frames = <<>>
        /\ BufLen(trace[g].inp) % FrameLength # 0
        /\ trace[g].out = trace[g].inp

\* C11: a frame on which the detector raises is retained, for aggressive
\* True and False alike, and the failure leaves the retention of every other
\* frame to that frame's own classification.
C11_DetectorFailureKeepsFrame ==
    \A g \in GateCalls :
        \A k \in 1 .. Len(verdicts) :
            /\ verdicts[k] = "raise" =>
                  /\ k \in Range(voiced_frames)
                  /\ Covered(trace[g].out, FrameAt(trace[g].inp, k))
            /\ (verdicts[k] # "raise" /\ \E j \in 1 .. Len(verdicts) : verdicts[j] = "raise") =>
                  ((k \in Range(voiced_frames)) <=>
                      (verdicts[k] = "speech" \/ ~trace[g].step.aggressive))

C11_Witness ==
    \E g \in GateCalls :
        /\ trace[g].step.aggressive
        /\ \E k, j \in 1 .. Len(verdicts) :
              /\ verdicts[k] = "raise"
              /\ k \in Range(voiced_frames)
              /\ verdicts[j] = "nonspeech"
              /\ j \notin Range(voiced_frames)
        /\ BufLen(trace[g].out) < BufLen(trace[g].inp)

\* the samples of frames ks of a buffer that starts at input position 0,
\* frame k being positions (k-1)*480 .. k*480 - 1
RECURSIVE FramesOf(_)
FramesOf(ks) ==
    IF ks = <<>> THEN <<>>
    ELSE Cat(<<<<(Head(ks) - 1) * 480, Head(ks) * 480>>>>, FramesOf(Tail(ks)))

\* C12: the gate cuts the buffer into consecutive non-overlapping frames of
\* int(sample_rate*30/1000) = 480 samples from index 0, ignores a trailing
\* partial frame, and when a frame is retained its output is the retained
\* frames' unscaled samples in their original order: a multiple of the frame
\* length, nothing duplicated or reordered.
C12_FramesConcatenatedInOrder ==
    /\ FrameLength = 480
    /\ \A g \in GateCalls :
          LET inp == trace[g].inp
              out == trace[g].out
          IN /\ Len(verdicts) = BufLen(inp) \div 480
             /\ \A i \in 1 .. Len(voiced_frames) - 1 :
                   voiced_frames[i] < voiced_frames[i + 1]
             /\ voiced_frames # <<>> =>
                   /\ out.hist = inp.hist
                   /\ out.segs = FramesOf(voiced_frames)
                   /\ BufLen(out) = 480 * Len(voiced_frames)
                   /\ \A i \in 1 .. Len(out.segs) - 1 :
                         out.segs[i][2] < out.segs[i + 1][1]

C12_Witness ==
    \E g \in GateCalls :
        /\ Len(verdicts) = 3
        /\ voiced_frames = <<1, 3>>
        /\ BufLen(trace[g].inp) % 480 # 0
        /\ trace[g].out.segs = <<<<0, 480>>, <<960, 1440>>>>

\* the calls of the two spectral stages made so far
SpectralCalls ==
    {i \in 1 .. Len(trace) :
        trace[i].step.op \in {"spectral_subtraction", "enhance_voice"}}

\* the keys by which a result could tell its caller that a stage was skipped
StageFlagKeys == {"skipped_stages", "stages", "status"}

\* C18: when a spectral stage hits a numeric failure it returns its input
\* unchanged, the skip is flagged where the caller can observe it, and the
\* remaining stages run on the unchanged buffer.
C18_SpectralFailureFlagged ==
    \A i \in SpectralCalls :
        trace[i].status = "skipped" =>
            /\ trace[i].out = trace[i].inp
            /\ i < Len(trace) => trace[i + 1].inp = trace[i].inp
            /\ i = Len(trace) => (pc = "stage" /\ audio = trace[i].inp)
            /\ pc = "done" => MetricsKeys(metrics) \cap StageFlagKeys # {}

\* C19: a spectral stage that did not fail returns a buffer whose length
\* differs from its input's by less than one hop (512 samples).
C19_SpectralLengthDrift ==
    \A i \in SpectralCalls :
        trace[i].status = "ok" =>
            /\ BufLen(trace[i].inp) - BufLen(trace[i].out) < 512
            /\ BufLen(trace[i].out) - BufLen(trace[i].inp) < 512

C19_Witness ==
    \E i, j \in SpectralCalls :
        /\ trace[i].status = "ok"
        /\ BufLen(trace[i].inp) - BufLen(trace[i].out) > 400
        /\ trace[j].step.op = "enhance_voice"
        /\ trace[j].status = "ok"
        /\ BufLen(trace[j].inp) = BufLen(trace[j].out)
        /\ BufLen(trace[j].out) > 0

\* a = b for rationals in lowest terms, neither being nan
REq(a, b) == a[2] # 0 /\ b[2] # 0 /\ a[1] * b[2] = b[1] * a[2]

NormalizeReturned == dop = "normalize" /\ dout.status = "returned"

\* C13 as stated: for a buffer of RMS > 0 the RMS of normalize(buffer) is
\* 10^(-23/20), also when the 0.95 clip guard was triggered.
C13_RmsIsTargetAlways ==
    (NormalizeReturned /\ RmsPositive(din)) =>
        REq(MeanSq(dout.buf), TargetRmsSq)

\* C13 amended: for a buffer of RMS > 0 the RMS of normalize(buffer) is
\* 10^(-23/20) when the clip guard is not triggered; when it is, the RMS is
\* 0.95 * rms/peak of the input, which is below 10^(-23/20).
C13_RmsIsTargetUnlessClipped ==
    (NormalizeReturned /\ RmsPositive(din)) =>
        IF dout.clipped
        THEN /\ REq(MeanSq(dout.buf),
                    RMul(ClipSq, RDiv(MeanSq(din), PeakSq(din))))
             /\ RGt(TargetRmsSq, MeanSq(dout.buf))
        ELSE REq(MeanSq(dout.buf), TargetRmsSq)

C13_Witness ==
    /\ NormalizeReturned
    /\ RmsPositive(din)
    /\ dout.clipped
    /\ NLen(din.runs) = 181
    /\ REq(PeakSq(dout.buf), ClipSq)

\* C14: for every input buffer normalize returns a buffer of the same
\* length with peak at most 0.95; a peak above 0.95 after loudness scaling
\* rescales the whole buffer by the one factor 0.95/peak, otherwise no clip
\* rescale is applied.
C14_NormalizeTotalAndBounded ==
    dop = "normalize" =>
        /\ dout.status = "returned"
        /\ NLen(dout.buf.runs) = NLen(din.runs)
        /\ ~RGt(PeakSq(dout.buf), ClipSq)
        /\ LET scaled == [runs |-> din.runs, g |-> LoudnessGain(din)]
           IN IF RGt(PeakSq(scaled), ClipSq)
              THEN /\ dout.clipped
                   /\ dout.buf.runs = din.runs
                   /\ REq(dout.buf.g,
                          RMul(scaled.g, RDiv(ClipSq, PeakSq(scaled))))
              ELSE /\ ~dout.clipped
                   /\ dout.buf = scaled

\* C15: normalize of an all-zero buffer returns it unchanged: loudness
\* scaling is skipped, the clip guard is not triggered, every sample is 0.
C15_ZeroBufferUnchanged ==
    (dop = "normalize" /\ NLen(din.runs) > 0 /\ SumSq(din.runs) = 0) =>
        /\ dout.status = "returned"
        /\ ~dout.scaled
        /\ ~dout.clipped
        /\ dout.buf = din
        /\ REq(MeanSq(dout.buf), <<0, 1>>)
        /\ REq(PeakSq(dout.buf), <<0, 1>>)

C15_Witness ==
    /\ dop = "normalize"
    /\ din.runs = <<<<0, 2>>, <<0, 360>>>>
    /\ dout.status = "returned"
    /\ dout.buf = din

\* C16: compress acts sample by sample: a level at or below the threshold is
\* returned unchanged, a level L above it comes back as
\* threshold + (L - threshold)/ratio with the original sign (-10 dB with
\* ratio 3 and threshold -20 dB becomes -16.67 dB); the length is kept.
C16_CompressPerSample ==
    dop = "compress" =>
        /\ Len(dout) = Len(din.samples)
        /\ \A i \in 1 .. Len(din.samples) :
              LET s == din.samples[i]
                  t == dout[i]
              IN /\ s.db <= din.threshold => t = s
                 /\ s.db > din.threshold =>
                       /\ t.sign = s.sign
                       /\ din.ratio * (t.db - din.threshold)
                             = s.db - din.threshold
                 /\ (s.db = 12 * (-10) /\ din.ratio = 3) => 3 * t.db = 12 * (-50)

C16_Witness ==
    /\ dop = "compress"
    /\ din.ratio = 3
    /\ Len(din.samples) = 2
    /\ din.samples[1] = [sign |-> -1, db |-> 12 * (-10)]
    /\ dout[1] = [sign |-> -1, db |-> -200]
    /\ din.samples[2] = [sign |-> 1, db |-> 12 * (-20)]
    /\ dout[2] = din.samples[2]

\* C17: in spectral subtraction the magnitude used for reconstruction is,
\* for every frame and bin, at least 0.1 times the bin's magnitude before
\* subtraction, never negative, and equal to
\* max(magnitude - over_subtraction*noise_spectrum, 0.1*magnitude).
C17_SpectralFloor ==
    dop = "spectral" =>
        LET cnt == Min(15, TotalFrames(din))
        IN /\ dout.scale = 10 * cnt
           /\ \A r \in 1 .. Len(din) : \A b \in DOMAIN din[r].mags :
                 LET m == din[r].mags[b]
                     e == dout.runs[r].mags[b]
                     sub == 10 * (m * cnt - 2 * NoiseSum(din, b, 15))
                 IN /\ e >= m * cnt
                    /\ e >= 0
                    /\ e >= sub
                    /\ e = m * cnt \/ e = sub

C17_Witness ==
    /\ dop = "spectral"
    /\ TotalFrames(din) > 15
    /\ \E r \in 1 .. Len(din) : \E b \in DOMAIN din[r].mags :
          /\ din[r].mags[b] > 0
          /\ dout.runs[r].mags[b] = din[r].mags[b] * 15
          /\ 10 * (din[r].mags[b] * 15 - 2 * NoiseSum(din, b, 15)) < 0
    /\ \E r \in 1 .. Len(din) : \E b \in DOMAIN din[r].mags :
          dout.runs[r].mags[b] > din[r].mags[b] * 15

\* C20: the voice-band enhancer multiplies the magnitude of a bin by one
\* gain fixed by the bin's centre frequency k*7.8125 Hz: 1.2 in [85, 255] Hz,
\* 1.1 in [300, 4000] Hz, 1.0 elsewhere, never both boosts; the gain is the
\* same in every frame, the phase is kept, no magnitude is reduced.
C20_VoiceBandGain ==
    dop = "voice" =>
        LET k == din.bin
            fund == 85 * 16 <= 125 * k /\ 125 * k <= 255 * 16
            harm == 300 * 16 <= 125 * k /\ 125 * k <= 4000 * 16
            gain == IF fund THEN 12000 ELSE IF harm THEN 11000 ELSE 10000
        IN /\ ~(fund /\ harm)
           /\ Len(dout) = Len(din.frames)
           /\ \A f \in 1 .. Len(din.frames) :
                 /\ dout[f].mag = din.frames[f].mag * gain
                 /\ dout[f].phase = din.frames[f].phase
                 /\ dout[f].mag >= din.frames[f].mag * 10000

C20_Witness ==
    /\ dop = "voice"
    /\ din.bin = 512
    /\ Len(din.frames) = 2
    /\ din.frames[1] = [mag |-> 3, phase |-> -1]
    /\ dout[1] = [mag |-> 33000, phase |-> -1]
    /\ dout[2].mag = din.frames[2].mag * 11000

\* a decibel value within the closed range [0, 60]
InSnrRange(p) ==
    /\ p[2] # 0
    /\ p[1] >= p[2]
    /\ (p[1] \div p[2] < 1000000 \/ p = Db60)

\* C21: estimate_snr returns a value in [0, 60] dB for every input buffer:
\* empty, shorter than 4 samples, constant, and when the computation itself
\* fails.
C21_SnrInRange ==
    dop = "snr" => InSnrRange(dout)

\* a buffer whose quietest quarter varies more than the whole: the raw
\* estimate is negative and the floor of the clamp decides
C21_Witness ==
    /\ dop = "snr"
    /\ din.numeric
    /\ din.array = <<0, 10, 10, 10, 10, 10, 10, 10>>
    /\ RGt(Var(<<0, 10>>), Var(din.array))
    /\ dout = Db0

\* the clamp of a non-negative power ratio to [0, 60] dB
ClampedRatio(r) ==
    IF r[1] <= r[2] THEN Db0
    ELSE IF r[1] \div r[2] >= 1000000 THEN Db60
    ELSE r

\* C22: estimate_snr returns exactly 60 whenever the noise power (variance of
\* the first len//4 sorted absolute values) is 0, in particular for an
\* all-zero buffer, and otherwise 10*log10(variance(buffer)/noise_power)
\* clamped to [0, 60].
C22_SnrFormula ==
    (dop = "snr" /\ din.numeric) =>
        LET a == din.array
            quietest == SubSeq(SortAbs(a), 1, Len(a) \div 4)
            noise == Var(quietest)
        IN /\ noise = <<0, 1>> => dout = Db60
           /\ (\A i \in DOMAIN a : a[i] = 0) => dout = Db60
           /\ RGt(noise, <<0, 1>>) =>
                 /\ dout = ClampedRatio(RDiv(Var(a), noise))
                 /\ a # <<>>

\* an estimate strictly inside the range: variance 4807/64 over 1/4
C22_Witness ==
    /\ dop = "snr"
    /\ din.numeric
    /\ din.array = <<0, 1, -10, -10, -10, 10, 10, 10>>
    /\ dout = <<4807, 16>>

ReportFields ==
    {"original_rms", "enhanced_rms", "original_snr_db", "enhanced_snr_db",
     "snr_improvement_db", "volume_change_db"}

\* the call returned a QualityReport, not the error dict
ReportReturned == dop = "metrics" /\ DOMAIN dout = ReportFields

\* an RMS carried as its square is finite unless it is nan
FiniteRms(ms) == ms[2] # 0

\* a decibel value carried as a power ratio is finite unless the ratio is
\* nan or 0
FiniteDb(p) == p[2] # 0 /\ p[1] > 0

\* C23: every QualityReport returned has all six fields finite (no infinity,
\* no NaN) for every pair of original and enhanced buffers, including an
\* all-zero enhanced buffer with a non-zero original.
C23_ReportFinite ==
    ReportReturned =>
        /\ FiniteRms(dout.original_rms)
        /\ FiniteRms(dout.enhanced_rms)
        /\ FiniteDb(dout.original_snr_db)
        /\ FiniteDb(dout.enhanced_snr_db)
        /\ FiniteDb(dout.snr_improvement_db)
        /\ FiniteDb(dout.volume_change_db)

\* C25: snr_improvement_db = enhanced_snr_db - original_snr_db, within
\* [-60, 60]; volume_change_db = 20*log10(enhanced_rms/original_rms) when
\* original_rms > 0 and exactly 0 when original_rms is 0.
C25_DerivedFields ==
    ReportReturned =>
        LET imp == dout.snr_improvement_db
        IN /\ imp = RDiv(dout.enhanced_snr_db, dout.original_snr_db)
           /\ imp[2] # 0 /\ imp[1] > 0
           /\ ~RGtInt(imp, 1000000)
           /\ ~RGtInt(<<imp[2], imp[1]>>, 1000000)
           /\ RGt(dout.original_rms, <<0, 1>>) =>
                 dout.volume_change_db =
                     RDiv(RmsSq(din.enh), RmsSq(din.orig))
           /\ dout.original_rms = <<0, 1>> => dout.volume_change_db = Db0

\* a silent original against an audible enhanced file: the guard decides
\* the volume change, the improvement is negative
C25_Witness ==
    /\ ReportReturned
    /\ din.orig = <<0, 0, 0>>
    /\ din.enh = <<0, 1, -10, -10, -10, 1000, 1000, 1000>>
    /\ dout.original_snr_db = Db60
    /\ dout.enhanced_snr_db = <<15175567, 16>>
    /\ dout.snr_improvement_db = <<15175567, 16000000>>
    /\ dout.volume_change_db = Db0
    /\ RGt(dout.enhanced_rms, <<0, 1>>)

\* the entry point has returned its (path, metrics) pair
EntryReturned == pc = "done" /\ outcome = "returned"

\* the enhancer fell back to the original input: no report, nothing compared
SkippedOnFallback ==
    enhanced_path = "file_path" =>
        /\ metrics = "skipped"
        /\ MetricsKeys(metrics) \cap ReportFields = {}
        /\ compared = <<>>

\* C24: a QualityReport is computed only when enhancement actually ran: on a
\* fallback to the original input the metrics are the skipped marker with
\* none of the six report fields, and when an enhanced output was produced
\* the metrics are a QualityReport comparing the original with that output.
C24_ReportIffEnhanced ==
    EntryReturned =>
        /\ SkippedOnFallback
        /\ enhanced_path = "output_path" =>
              /\ metrics = "report"
              /\ MetricsKeys(metrics) = ReportFields
              /\ compared = <<"file_path", "output_path">>

\* C24 (amended): as above, except that with an enhanced output the metrics
\* are either that QualityReport or, when computing it raised, an error
\* marker with none of the six report fields.
C24_ReportOnlyWhenEnhanced ==
    EntryReturned =>
        /\ SkippedOnFallback
        /\ enhanced_path = "output_path" =>
              /\ metrics \in {"report", "error"}
              /\ compared = <<"file_path", "output_path">>
              /\ metrics = "report" => MetricsKeys(metrics) = ReportFields
              /\ metrics = "error" =>
                    MetricsKeys(metrics) \cap ReportFields = {}

\* an enhanced file was written and comparing it with the original raised
C24_Witness ==
    /\ EntryReturned
    /\ enhanced_path = "output_path"
    /\ BufLen(enhFile) > 0
    /\ metrics = "error"
    /\ compared = <<"file_path", "output_path">>

\* the gate of invocation i has finished
Gated(i) == ipc[i] \in {"save", "convert", "cleanup", "done"}

\* the gate run on frames by a detector that starts with hang-over oh
RECURSIVE GateFrom(_, _, _, _)
GateFrom(frames, k, oh, aggressive) ==
    IF k > Len(frames) THEN <<>>
    ELSE LET v == VadIsSpeech(oh, frames[k])
             rest == GateFrom(frames, k + 1, v.over_hang, aggressive)
         IN IF v.is_speech \/ ~aggressive THEN <<k>> \o rest ELSE rest

\* the result of the gate for this input and preset alone, on a detector
\* nothing else has used
GateAlone(in) ==
    GateResult(in.frames, GateFrom(in.frames, 1, 0, in.aggressive))

\* C26: enhancement invocations do not interfere: no mutable state is shared
\* between them, the voice-activity detector included, so the result of an
\* invocation depends only on its own input buffer and preset, whatever
\* other invocations ran before it or interleave with it.
C26_InvocationsIndependent ==
    \A i \in Inv :
        Gated(i) =>
            GateResult(inputs[i].frames, voiced[i]) = GateAlone(inputs[i])

\* C27: two invocations on different input files, concurrent or interleaved
\* with the caller's clean-up, never write to or delete the same enhanced
\* file: the output path is unique to the invocation, and no invocation
\* reads, overwrites or removes the enhanced audio of another.
C27_OutputPathUnique ==
    /\ \A t1 \in touched : \A t2 \in touched :
          t1.path = t2.path => t1.inv = t2.inv
    /\ \A i \in Inv :
          ipc[i] \in {"cleanup", "done"} =>
              converted[i] = [owner |-> i,
                              audio |-> GateResult(inputs[i].frames, voiced[i])]

\* the calls of the audio preparation whose failure leads to the fall-back
EnhancedSideSites ==
    {"enhance", "from_file_enhanced", "export_enhanced", "remove_enhanced"}

OriginalSideSites == {"from_file_original", "export_original"}

\* transcribe_audio went past the audio preparation
Proceeded ==
    \/ tpc \in {"step2", "transcribe", "remove_wav", "post"}
    \/ /\ tpc \in {"returned", "finally", "finished"}
       /\ result # AudioProcessingFailed

\* C28: the audio preparation of transcribe_audio is a fall-back chain: if
\* enhancement or the conversion of the enhanced file fails, the original is
\* converted and transcription proceeds with audio_metrics marked "failed"
\* and carrying the error; an error result with success=False is returned
\* only when the original itself cannot be converted; whenever the function
\* proceeds to transcription wav_path and audio_metrics are both defined.
C28_FallbackChain ==
    /\ Proceeded =>
          /\ wav_path # "undefined"
          /\ audio_metrics.kind # "undefined"
          /\ tpc = "step2" => wav_path \in files
          /\ \A k \in DOMAIN raised_at :
                raised_at[k] \in EnhancedSideSites =>
                    /\ wav_path = "wav"
                    /\ audio_metrics = Metrics("failed", raised_at[k])
    /\ (tpc \in {"returned", "finally", "finished"}
            /\ result = AudioProcessingFailed) =>
          /\ ~result.success
          /\ raised_at[Len(raised_at)] \in OriginalSideSites
    /\ (\E k \in DOMAIN raised_at : raised_at[k] \in OriginalSideSites) =>
          /\ tpc \in {"returned", "finally", "finished"}
          /\ result = AudioProcessingFailed

\* the enhanced file could not be read, the original could: transcription
\* is about to start on <uuid>.wav
C28_Witness ==
    /\ tpc = "step2"
    /\ raised_at = <<"from_file_enhanced">>
    /\ enhanced_file_path = "enhanced"
    /\ wav_path = "wav"
    /\ "wav" \in files
    /\ audio_metrics = Metrics("failed", "from_file_enhanced")

\* transcribe_audio has returned or raised
Left == tpc \in {"returned", "finally", "finished"}

\* C29: every temporary file transcribe_audio creates or receives from the
\* enhancer (the converted WAV and the enhanced file) has been removed by
\* the time it returns or raises, on every path, and the caller's original
\* input file is never removed by transcribe_audio.
C29_NoTempFileLeft ==
    /\ Left => files \cap TempFiles = {}
    /\ \A k \in DOMAIN removals :
          removals[k] # <<"transcribe_audio", "file_path">>

\* the os.remove calls that removed the uploaded file
UploadRemovals == SelectSeq(removals, LAMBDA r : r[2] = "file_path")

\* C30: in the /transcribe handler, once the upload has been written to its
\* temporary path, that file is removed exactly once before the handler
\* finishes, whether transcription succeeds, returns an error result
\* (answered with HTTP 500) or raises.
C30_UploadRemovedOnce ==
    via = "handler" =>
        /\ tpc = "finished" =>
              /\ UploadRemovals = <<<<"handler", "file_path">>>>
              /\ "file_path" \notin files
              /\ response \in {"200", "500", "raised"}
              /\ response = "500" <=> result.kind = "error"
              /\ response = "raised" <=> result.kind = "raised"
        /\ tpc # "finished" =>
              /\ UploadRemovals = <<>>
              /\ "file_path" \in files

\* an error result answered with 500, the upload removed by the finally
C30_Witness ==
    /\ via = "handler"
    /\ tpc = "finished"
    /\ result = ModelLoadFailed
    /\ response = "500"
    /\ removals[Len(removals)] = <<"handler", "file_path">>
    /\ "file_path" \notin files

====
